---- MODULE Spec2Model ----
(***************************************************************************)
(* Document knowledge-base engine of app/services/document_service.py:     *)
(* the ingest pipeline (DocumentService.upload_document and                *)
(* _process_document_chunks), the document operations (get, update,        *)
(* delete) and the repository collections they read and write.             *)
(*                                                                         *)
(* Every await of a handler is a step of its own, so that other requests   *)
(* interleave where the event loop lets them.  A repository call either    *)
(* succeeds or, while the fault budget lasts, raises without effect        *)
(* (insert_many: after inserting a strict prefix of the batch).            *)
(***************************************************************************)
EXTENDS Integers, FiniteSets, Sequences, TLC

\* ------------------------------------------------------------------ bounds
NumProcs == 2       \* concurrent upload requests
MaxChunks == 2      \* chunk counts 1..MaxChunks are enumerated with every failure set
MaxFaults == 1      \* repository calls that may fail in one behaviour
MaxTime == 1        \* clock ticks (seconds) that may pass
MaxOps == 2         \* get/update/delete requests in one behaviour
MaxStrides == 2     \* plain texts run to MaxStrides windows past the first
MaxOver == 2        \* texts run to MaxOver characters past the embedding limit
MaxLimit == 2       \* search limits run from -1 to MaxLimit
MaxStoredChunks == 10   \* chunks of the largest stored document
MaxSheets == 2      \* worksheets of a workbook
MaxRows == 2        \* rows of a workbook's first worksheet

\* ------------------------------------------------------- program constants
max_file_size == 10485760
max_chunks_per_document == 100
MinContentLength == 10
MinSplitLength == 50
chunk_size == 800
chunk_overlap == 100
MinChunkLength == 20
MaxEmbeddingChars == 8000
MinEmbeddingChars == 3
max_chunk_size == 800
MarkerFrameLen == 21        \* len("=== WORKSHEET 1: ") + len(" ===")
EmptyWorksheetLen == 17     \* len("(Empty worksheet)")
SplitMarkerLen == 13        \* len("=== WORKSHEET")
InfoPrefixLen == 10         \* len("WORKSHEET ")

valid_extensions == {".pdf", ".docx", ".txt", ".xlsx", ".xls"}

PROCESSING == "processing"
READY == "ready"
ERROR == "error"

\* ------------------------------------------------------------------ inputs
Procs == 1..NumProcs
Workspaces == {"w1", "w2"}
NoSize == -1        \* UploadFile.size is None
NoDoc == 0          \* 'document_id' not in locals()
BigSize == max_file_size + 1
SmallSize == 3000

\* What the uploaded bytes hold: whether the extractor raises on them, the
\* length of the text it extracts (trimmed) and the number of non-empty chunks
\* the chunker cuts that text into.
Bodies ==
    {[corrupt |-> TRUE, len |-> 0, n |-> 0],
     [corrupt |-> FALSE, len |-> 5, n |-> 0],
     [corrupt |-> FALSE, len |-> 30, n |-> 0]}
    \cup {[corrupt |-> FALSE, len |-> SmallSize, n |-> k] : k \in 1..MaxChunks}
    \cup {[corrupt |-> FALSE, len |-> SmallSize, n |-> max_chunks_per_document + 1]}

FileNames ==
    {[stem |-> "a", ext |-> ".txt"], [stem |-> "b", ext |-> ".txt"],
     [stem |-> "a", ext |-> ".png"], [stem |-> "", ext |-> ""]}

\* An UploadFile: its name, the size metadata that accompanies it, the number
\* of bytes it really holds and what those bytes are.
AllUploads ==
    {f \in [filename : FileNames, size : {NoSize, 0, SmallSize, BigSize},
            nbytes : {SmallSize, BigSize}, body : Bodies] :
        f.size \in {NoSize, 0, f.nbytes}}

\* The uploads the concurrent uploads draw from: accepted files with chunks.
ValidUploads ==
    {f \in AllUploads :
        /\ f.filename.ext = ".txt"
        /\ f.size = f.nbytes /\ f.nbytes = SmallSize
        /\ ~f.body.corrupt /\ f.body.n \in 1..MaxChunks}

NoUpload == [filename |-> [stem |-> "", ext |-> ""], size |-> NoSize,
             nbytes |-> 0, body |-> [corrupt |-> FALSE, len |-> 0, n |-> 0]]
NoContent == [owner |-> 0, len |-> 0, n |-> 0]
NoPath == <<-1, NoUpload.filename>>
\* A file of the upload directory: the inode behind the path (0: no such file),
\* and whose bytes it holds (owner 0: opened for writing, nothing written yet).
Absent == [ino |-> 0, owner |-> 0, body |-> NoUpload.body]
NoResult == [kind |-> "none"]
NoExc == [status_code |-> 0, detail |-> ""]

\* A str: its length and where its characters other than letters are, as
\* 0-based offsets.  term: the offsets of '.', '!' and '?'; sp: the runs of ' ';
\* nl: the runs of other whitespace.  A run is <<first, last>>; runs are
\* disjoint and no two are adjacent within sp or within nl.
NoText == [len |-> 0, term |-> {}, sp |-> {}, nl |-> {}]
NoChunks == [list |-> <<>>, windows |-> <<>>, capped |-> FALSE, called |-> FALSE,
             start |-> 0, done |-> FALSE]
NoEmbedding == [called |-> FALSE, value |-> <<>>]
NoRequest == [query |-> NoText, workspace_id |-> "", limit |-> 0,
              similarity_threshold |-> 0]
NoResults == [returned |-> FALSE, error |-> FALSE, list |-> <<>>]
NoExcelInput == [content |-> <<>>, filename |-> ""]
NoExcelChunks == [returned |-> FALSE, list |-> <<>>]

\* The texts the chunker is run on.  Plain texts of the lengths around the
\* length checks, around whole windows and around the chunk limit, and the
\* same with sentence ends, spaces and other whitespace around a third of a
\* window, inside it, at its end, and at the start and end of the text.
Stride == chunk_size - chunk_overlap
CapLen == max_chunks_per_document * Stride + MinChunkLength + 1
TextLens ==
    {0, 21, 30, 49, 50, 51}
    \cup {k * Stride + d : k \in 1..MaxStrides, d \in {0, 20, 21, 99, 100, 101, 121}}
    \cup {CapLen - 1, CapLen, CapLen + Stride}
Terminators == {{}, {266}, {267}, {500}, {799}, {267, 1100}}
SpaceRuns == {{}, {<<266, 266>>}, {<<267, 267>>}, {<<600, 602>>}, {<<690, 1520>>}}
OtherRuns(n) == {{}, {<<0, 1>>, <<n - 2, n - 1>>}, {<<640, 660>>}}

\* The part of a description that lies inside the text.
Clip(t) ==
    LET cut(runs) == {<<IF r[1] < 0 THEN 0 ELSE r[1],
                        IF r[2] < t.len THEN r[2] ELSE t.len - 1>> :
                        r \in {x \in runs : x[1] < t.len /\ x[2] >= 0}}
    IN [len |-> t.len, term |-> {x \in t.term : x < t.len},
        sp |-> cut(t.sp), nl |-> cut(t.nl)]

\* Every offset holds one character.
WellFormed(t) ==
    /\ \A r \in t.sp \cup t.nl : 0 <= r[1] /\ r[1] <= r[2] /\ r[2] < t.len
    /\ \A r \in t.sp, q \in t.nl : r[2] < q[1] \/ q[2] < r[1]
    /\ \A r, q \in t.sp : r = q \/ r[2] < q[1] \/ q[2] < r[1]
    /\ \A r, q \in t.nl : r = q \/ r[2] < q[1] \/ q[2] < r[1]
    /\ \A x \in t.term : 0 <= x /\ x < t.len /\ \A r \in t.sp \cup t.nl : x < r[1] \/ r[2] < x

Texts ==
    UNION {{t \in {Clip([len |-> n, term |-> T, sp |-> S, nl |-> N]) :
                    T \in Terminators, S \in SpaceRuns, N \in OtherRuns(n)} :
                WellFormed(t)} : n \in TextLens}

\* The texts generate_embedding is called with: around the minimum and the
\* maximum length, with whitespace at the ends, inside, and all over.
EmbeddingLens ==
    (0..(MinEmbeddingChars + 2))
    \cup {MaxEmbeddingChars + d : d \in (0 - 1)..MaxOver}
EmbeddingTexts ==
    UNION {{t \in {Clip([len |-> n, term |-> {}, sp |-> S, nl |-> N]) :
                    S \in {{}, {<<0, 1>>}, {<<1, MaxEmbeddingChars>>},
                           {<<2, MaxEmbeddingChars - 2>>},
                           {<<MaxEmbeddingChars - 2, MaxEmbeddingChars>>}},
                    N \in {{}, {<<n - 2, n - 1>>}, {<<0, n - 1>>}}} :
                WellFormed(t)} : n \in EmbeddingLens}

\* The vectors the embedding provider returns (all of length 5), and what
\* client.embeddings.create does on a call: return one of them, or raise.
Vectors == {<<5, 0>>, <<4, 3>>, <<3, 4>>, <<0, 5>>, <<0 - 3, 4>>}
Raises == [ok |-> FALSE, embedding |-> <<>>]
Responses == {[ok |-> TRUE, embedding |-> v] : v \in Vectors} \cup {Raises}

VARIABLES
    documents,          \* db.documents: _id -> record
    document_chunks,    \* db.document_chunks: set of chunk records
    nextId,             \* the next ObjectId insert_one hands out
    files,              \* the upload directory: path -> file
    now,                \* datetime.utcnow(), in seconds
    faults,             \* repository failures still to come
    pc,                 \* where each upload request stands
    file,               \* upload_document's file argument
    workspace_id,       \* upload_document's workspace_id argument
    file_path,          \* _save_file's path
    handle,             \* the inode _save_file's open file object writes to
    content,            \* the extracted text
    document_id,        \* upload_document's document_id local
    chunk_documents,    \* _process_document_chunks' chunk_documents
    embedding_failed,   \* the chunk positions generate_embedding returned [] for
    failed,             \* the repository calls that failed in this request
    raised,             \* the exception raised inside upload_document's try block
    result,             \* what upload_document returned or raised
    op,                 \* the get/update/delete request in progress
    opsLeft,            \* get/update/delete requests still to come
    opResult,           \* what the last get/update/delete returned or raised
    text,               \* the text handed to _split_into_chunks or generate_embedding
    chunks,             \* what _split_into_chunks returned
    provider_calls,     \* the inputs client.embeddings.create was called with
    embedding,          \* what generate_embedding returned
    search_request,     \* search_documents' search_request argument
    search_pc,          \* where the search request stands
    query_embedding,    \* search_documents' query_embedding
    search_results,     \* what search_documents returned
    excel_input,        \* create_excel_chunks' content and filename arguments
    excel_chunks        \* what create_excel_chunks returned

vars == <<documents, document_chunks, nextId, files, now, faults, pc, file,
          workspace_id, file_path, handle, content, document_id, chunk_documents,
          embedding_failed, failed, raised, result, op, opsLeft, opResult,
          text, chunks, provider_calls, embedding, search_request, search_pc,
          query_embedding, search_results, excel_input, excel_chunks>>

repo == <<documents, document_chunks, nextId>>
locals == <<file, workspace_id, file_path, handle, content, document_id,
            chunk_documents, embedding_failed>>
client == <<op, opsLeft, opResult>>
search == <<search_request, search_pc, query_embedding, search_results>>
tabular == <<excel_input, excel_chunks>>
aside == <<text, chunks, provider_calls, embedding, search, tabular>>
Idle == [name |-> "idle", d |-> NoDoc, w |-> ""]

Paths == (0..MaxTime) \X {n \in FileNames : n.stem # ""}

\* The upload directory and the requests before any request, budget being the
\* number of repository calls that may fail.
InitCalls(budget) ==
    /\ nextId = 1
    /\ files = [x \in Paths |-> Absent]
    /\ now = 0
    /\ faults = budget
    /\ pc = [p \in Procs |-> "idle"]
    /\ file = [p \in Procs |-> NoUpload]
    /\ workspace_id = [p \in Procs |-> ""]
    /\ file_path = [p \in Procs |-> NoPath]
    /\ handle = [p \in Procs |-> 0]
    /\ content = [p \in Procs |-> NoContent]
    /\ document_id = [p \in Procs |-> NoDoc]
    /\ chunk_documents = [p \in Procs |-> {}]
    /\ embedding_failed = [p \in Procs |-> {}]
    /\ failed = [p \in Procs |-> {}]
    /\ raised = [p \in Procs |-> NoExc]
    /\ result = [p \in Procs |-> NoResult]
    /\ op = Idle
    /\ opsLeft = MaxOps
    /\ opResult = "none"

InitRequests == InitCalls(MaxFaults)

\* The same, with an empty repository.
InitIngest ==
    /\ documents = <<>>
    /\ document_chunks = {}
    /\ InitRequests

\* No search request yet.
InitSearch ==
    /\ search_request = NoRequest
    /\ search_pc = "idle"
    /\ query_embedding = <<>>
    /\ search_results = NoResults

\* No call of the tabular chunker yet.
InitTabular ==
    /\ excel_input = NoExcelInput
    /\ excel_chunks = NoExcelChunks

Init ==
    /\ InitIngest
    /\ InitSearch
    /\ text = NoText
    /\ chunks = NoChunks
    /\ provider_calls = <<>>
    /\ embedding = NoEmbedding
    /\ InitTabular

\* ----------------------------------------------------------------- helpers
_is_valid_file_type(filename) == filename.ext \in valid_extensions

\* HTTPException(status_code, detail)
HTTPException(code, detail) == [status_code |-> code, detail |-> detail]

\* What the except clause of upload_document turns every exception into.
HandlerFailure ==
    [kind |-> "raised", status_code |-> 500, detail |-> "Failed to upload document"]

\* An exception e is raised inside upload_document's try block.  With no
\* document_id bound the handler raises at once; otherwise it first awaits
\* the status update.
Raise(p, e) ==
    /\ raised' = [raised EXCEPT ![p] = e]
    /\ IF document_id[p] = NoDoc
       THEN /\ pc' = [pc EXCEPT ![p] = "done"]
            /\ result' = [result EXCEPT ![p] = HandlerFailure]
       ELSE /\ pc' = [pc EXCEPT ![p] = "except"]
            /\ result' = result

\* A repository call fails.
Fault(p, call) ==
    /\ faults > 0
    /\ faults' = faults - 1
    /\ failed' = [failed EXCEPT ![p] = @ \cup {call}]

NoFault == UNCHANGED <<faults, failed>>

\* ------------------------------------------------------------------ ingest
\* upload_document up to the first await: the validations and _save_file's
\* choice of a path.
Upload(p, f, w) ==
    /\ pc[p] = "idle"
    /\ file' = [file EXCEPT ![p] = f]
    /\ workspace_id' = [workspace_id EXCEPT ![p] = w]
    /\ IF f.filename.stem = ""
       THEN /\ Raise(p, HTTPException(400, "No file provided"))
            /\ UNCHANGED file_path
       ELSE IF w = ""
       THEN /\ Raise(p, HTTPException(400, "Workspace ID is required"))
            /\ UNCHANGED file_path
       ELSE IF ~_is_valid_file_type(f.filename)
       THEN /\ Raise(p, HTTPException(400, "Invalid file type"))
            /\ UNCHANGED file_path
       ELSE IF f.size # NoSize /\ f.size # 0 /\ f.size > max_file_size
       THEN /\ Raise(p, HTTPException(400, "File size too large"))
            /\ UNCHANGED file_path
       ELSE /\ file_path' = [file_path EXCEPT ![p] = <<now, f.filename>>]
            /\ pc' = [pc EXCEPT ![p] = "save_open"]
            /\ UNCHANGED <<result, raised>>
    /\ UNCHANGED <<repo, files, now, faults, failed, handle, content,
                   document_id, chunk_documents, embedding_failed, client, aside>>

\* _save_file: aiofiles.open(file_path, 'wb') creates the file or truncates
\* the one that is there.
SaveOpen(p) ==
    /\ pc[p] = "save_open"
    /\ LET old == files[file_path[p]]
           ino == IF old.ino = 0 THEN p ELSE old.ino
       IN /\ files' = [files EXCEPT ![file_path[p]] =
                           [ino |-> ino, owner |-> 0, body |-> NoUpload.body]]
          /\ handle' = [handle EXCEPT ![p] = ino]
    /\ pc' = [pc EXCEPT ![p] = "save_write"]
    /\ UNCHANGED <<repo, now, faults, failed, raised, result, file,
                   workspace_id, file_path, content, document_id,
                   chunk_documents, embedding_failed, client, aside>>

\* _save_file: content = await file.read(); await f.write(content).  The
\* bytes go to the inode that was opened, which the path may no longer name.
SaveWrite(p) ==
    /\ pc[p] = "save_write"
    /\ files' = IF files[file_path[p]].ino = handle[p]
                THEN [files EXCEPT ![file_path[p]] =
                         [ino |-> handle[p], owner |-> p, body |-> file[p].body]]
                ELSE files
    /\ pc' = [pc EXCEPT ![p] = "extract"]
    /\ UNCHANGED <<repo, now, faults, failed, raised, result, locals, client, aside>>

\* The text an extractor returns for the bytes of a file.
ExtractedText(f) == [owner |-> f.owner, len |-> f.body.len, n |-> f.body.n]

\* Mutant of ContentTooShort: only empty content is rejected.
ContentTooShort_EmptyOnly(c) == c.len = 0

\* not content or len(content.strip()) < 10
ContentTooShort(c) == c.len < MinContentLength

\* _extract_text (which removes the file in its finally clause), the length
\* check on the content, and the building of doc_dict, up to insert_one.  A
\* file with nothing written yet reads as empty text (.txt) or makes the
\* extractor raise (the other types).
ExtractText(p) ==
    /\ pc[p] = "extract"
    /\ LET f == files[file_path[p]]
           ext == file[p].filename.ext
       IN IF ~(ext \in valid_extensions)
          THEN /\ Raise(p, HTTPException(500, "Unsupported file type"))
               /\ files' = [files EXCEPT ![file_path[p]] = Absent]
               /\ UNCHANGED content
          ELSE IF f.ino = 0
          THEN /\ Raise(p, HTTPException(500, "FileNotFoundError"))
               /\ UNCHANGED <<files, content>>
          ELSE /\ files' = [files EXCEPT ![file_path[p]] = Absent]
               /\ IF f.body.corrupt \/ (f.owner = 0 /\ ext # ".txt")
                  THEN /\ Raise(p, HTTPException(500, "extractor error"))
                       /\ UNCHANGED content
                  ELSE IF ContentTooShort(ExtractedText(f))
                  THEN /\ Raise(p, HTTPException(400, "Document content is too short"))
                       /\ content' = [content EXCEPT ![p] = ExtractedText(f)]
                  ELSE /\ content' = [content EXCEPT ![p] = ExtractedText(f)]
                       /\ pc' = [pc EXCEPT ![p] = "insert_one"]
                       /\ UNCHANGED <<result, raised>>
    /\ UNCHANGED <<repo, now, faults, failed, file, workspace_id, file_path,
                   handle, document_id, chunk_documents, embedding_failed,
                   client, aside>>

\* doc_dict: DocumentCreate(...).dict() with status PROCESSING and the model's
\* default chunk_count, plus access_count.
DocDict(p) ==
    [workspace_id |-> workspace_id[p], status |-> PROCESSING, chunk_count |-> 0,
     content |-> content[p], title |-> "orig", access_count |-> 0]

\* Document(**doc_dict) as upload_document returns it: doc_dict with the id and
\* the status overwritten.
ReturnedDocument(p) ==
    [kind |-> "document", id |-> document_id[p],
     workspace_id |-> DocDict(p).workspace_id, status |-> READY,
     chunk_count |-> DocDict(p).chunk_count]

RepositoryFailure == HTTPException(500, "RepositoryFailure")

\* db.documents.update_one({"_id": d}, {"$set": {field: value}})
SetStatus(d, value) ==
    IF d \in DOMAIN documents
    THEN [documents EXCEPT ![d].status = value]
    ELSE documents

SetChunkCount(d, value) ==
    IF d \in DOMAIN documents
    THEN [documents EXCEPT ![d].chunk_count = value]
    ELSE documents

\* result = await db.documents.insert_one(doc_dict)
InsertOne(p) ==
    /\ pc[p] = "insert_one"
    /\ \/ /\ NoFault
          /\ documents' = documents @@ (nextId :> DocDict(p))
          /\ nextId' = nextId + 1
          /\ document_id' = [document_id EXCEPT ![p] = nextId]
          /\ pc' = [pc EXCEPT ![p] = "find_one"]
          /\ UNCHANGED <<raised, result>>
       \/ /\ Fault(p, "insert_one")
          /\ Raise(p, RepositoryFailure)
          /\ UNCHANGED <<documents, nextId, document_id>>
    /\ UNCHANGED <<document_chunks, files, now, file, workspace_id, file_path,
                   handle, content, chunk_documents, embedding_failed, client, aside>>

\* _split_into_chunks / create_excel_chunks: how many chunks the content is
\* cut into (none for content shorter than 50 characters).
SplitCount(c) == IF c.len < MinSplitLength THEN 0 ELSE c.n

\* chunks = chunks[:self.max_chunks_per_document]
Capped(n) == IF n > max_chunks_per_document THEN max_chunks_per_document ELSE n

\* The sets of chunk positions (1-based) whose embedding call may fail.
FailSets(m) ==
    IF m <= MaxChunks THEN SUBSET (1..m) ELSE {{}, {1}, {2, m}, 1..m}

\* The vector generate_embedding returns for the i-th chunk of a text when the
\* call succeeds.
EmbeddingOf(i) ==
    IF i = 1 THEN <<5, 0>> ELSE IF i = 2 THEN <<4, 3>> ELSE <<3, 4>>

\* Mutant of ChunkDocuments: the first failed embedding ends the loop.
ChunkDocuments_AbortOnFailure(p, F) ==
    {[document_id |-> document_id[p], id_type |-> "str",
      workspace_id |-> workspace_id[p], chunk_index |-> i - 1,
      owner |-> content[p].owner, embedding |-> EmbeddingOf(i)] :
        i \in {j \in 1..Capped(SplitCount(content[p])) : \A x \in F : j < x}}

\* The chunk_documents list built by the embedding loop when generate_embedding
\* returns [] for the positions in F.
ChunkDocuments(p, F) ==
    {[document_id |-> document_id[p], id_type |-> "str",
      workspace_id |-> workspace_id[p], chunk_index |-> i - 1,
      owner |-> content[p].owner, embedding |-> EmbeddingOf(i)] :
        i \in (1..Capped(SplitCount(content[p]))) \ F}

\* _process_document_chunks: find_one on the document and, when it is found,
\* the chunking and the embedding loop up to the batch insert.  Everything
\* raised here is caught and logged by _process_document_chunks itself.
FindOne(p, F) ==
    /\ pc[p] = "find_one"
    /\ \/ /\ NoFault
          /\ document_id[p] \in DOMAIN documents
          /\ F \in FailSets(Capped(SplitCount(content[p])))
          /\ chunk_documents' = [chunk_documents EXCEPT ![p] = ChunkDocuments(p, F)]
          /\ embedding_failed' = [embedding_failed EXCEPT ![p] = F]
          /\ pc' = [pc EXCEPT ![p] =
                       IF ChunkDocuments(p, F) = {} THEN "update_count"
                       ELSE "insert_many"]
       \/ /\ NoFault
          /\ document_id[p] \notin DOMAIN documents
          /\ F = {}
          /\ pc' = [pc EXCEPT ![p] = "set_ready"]
          /\ UNCHANGED <<chunk_documents, embedding_failed>>
       \/ /\ Fault(p, "find_one")
          /\ F = {}
          /\ pc' = [pc EXCEPT ![p] = "set_ready"]
          /\ UNCHANGED <<chunk_documents, embedding_failed>>
    /\ UNCHANGED <<repo, files, now, raised, result, file, workspace_id,
                   file_path, handle, content, document_id, client, aside>>

\* The first j records of a batch, in chunk order.
Prefix(batch, j) ==
    {c \in batch : Cardinality({b \in batch : b.chunk_index < c.chunk_index}) < j}

\* How many records of a batch of k an ordered insert_many has written when
\* it fails: none, one, or all but the last.
FailurePoints(k) == {0, 1, k - 1} \cap (0..(k - 1))

\* await db.document_chunks.insert_many(chunk_documents)
InsertMany(p) ==
    /\ pc[p] = "insert_many"
    /\ \/ /\ NoFault
          /\ document_chunks' = document_chunks \cup chunk_documents[p]
          /\ pc' = [pc EXCEPT ![p] = "update_count"]
       \/ /\ Fault(p, "insert_many")
          /\ \E j \in FailurePoints(Cardinality(chunk_documents[p])) :
                document_chunks' = document_chunks \cup Prefix(chunk_documents[p], j)
          /\ pc' = [pc EXCEPT ![p] = "set_ready"]
    /\ UNCHANGED <<documents, nextId, files, now, raised, result, locals, client, aside>>

\* update_one({"_id": document_id}, {"$set": {"chunk_count": len(chunk_documents)}})
UpdateChunkCount(p) ==
    /\ pc[p] = "update_count"
    /\ \/ /\ NoFault
          /\ documents' = SetChunkCount(document_id[p],
                                        Cardinality(chunk_documents[p]))
       \/ /\ Fault(p, "update_count")
          /\ UNCHANGED documents
    /\ pc' = [pc EXCEPT ![p] = "set_ready"]
    /\ UNCHANGED <<document_chunks, nextId, files, now, raised, result, locals,
                   client, aside>>

\* Mutant of SetReady: building the returned Document raises after the status
\* was written.
SetReady_RaiseAfterWrite(p) ==
    /\ pc[p] = "set_ready"
    /\ NoFault
    /\ documents' = SetStatus(document_id[p], READY)
    /\ Raise(p, HTTPException(500, "ValidationError"))
    /\ UNCHANGED <<document_chunks, nextId, files, now, locals, client, aside>>

\* update_one({"_id": document_id}, {"$set": {"status": READY, ...}}) and the
\* return of Document(**doc_dict).
SetReady(p) ==
    /\ pc[p] = "set_ready"
    /\ \/ /\ NoFault
          /\ documents' = SetStatus(document_id[p], READY)
          /\ result' = [result EXCEPT ![p] = ReturnedDocument(p)]
          /\ pc' = [pc EXCEPT ![p] = "done"]
          /\ UNCHANGED raised
       \/ /\ Fault(p, "set_ready")
          /\ Raise(p, RepositoryFailure)
          /\ UNCHANGED documents
    /\ UNCHANGED <<document_chunks, nextId, files, now, locals, client, aside>>

\* The except clause once document_id is bound: the status update to ERROR,
\* then raise HTTPException(500).  A failure of the update leaves the handler
\* as it is.
ExceptHandler(p) ==
    /\ pc[p] = "except"
    /\ \/ /\ NoFault
          /\ documents' = SetStatus(document_id[p], ERROR)
          /\ result' = [result EXCEPT ![p] = HandlerFailure]
       \/ /\ Fault(p, "set_error")
          /\ result' = [result EXCEPT ![p] =
                           [kind |-> "raised", status_code |-> 500,
                            detail |-> RepositoryFailure.detail]]
          /\ UNCHANGED documents
    /\ pc' = [pc EXCEPT ![p] = "done"]
    /\ UNCHANGED <<document_chunks, nextId, files, now, raised, locals, client, aside>>

\* A second passes.
Tick ==
    /\ now < MaxTime
    /\ now' = now + 1
    /\ UNCHANGED <<repo, files, faults, pc, locals, failed, raised, result, client, aside>>

\* ------------------------------------------------- get, update and delete
\* A repository call of a get/update/delete request fails.
OpFault ==
    /\ faults > 0
    /\ faults' = faults - 1
    /\ opResult' = "raised"
    /\ op' = Idle

\* A new request starts (op is idle) or the request in progress goes on.
Begin == op = Idle /\ opsLeft > 0 /\ opsLeft' = opsLeft - 1

\* Mutant of Matches: the filter leaves the workspace out.
Matches_AnyWorkspace(d, w) == d \in DOMAIN documents

\* The filter {"_id": d, "workspace_id": w} matches a stored document.
Matches(d, w) == d \in DOMAIN documents /\ documents[d].workspace_id = w

\* delete_document: delete_many({"document_id": d, "workspace_id": w}), d being
\* the string the caller passed: the filter matches the chunks whose
\* document_id is that string.
DeleteChunks(d, w) ==
    /\ Begin
    /\ \/ /\ UNCHANGED faults
          /\ document_chunks' =
                {c \in document_chunks :
                    ~(c.document_id = d /\ c.id_type = "str" /\ c.workspace_id = w)}
          /\ op' = [name |-> "delete", d |-> d, w |-> w]
          /\ UNCHANGED opResult
       \/ /\ OpFault
          /\ UNCHANGED document_chunks
    /\ UNCHANGED <<documents, nextId, files, now, pc, locals, failed, raised, result,
                   aside>>

\* delete_document: delete_one({"_id": d, "workspace_id": w}) and the return
\* of deleted_count > 0.
DeleteDocument ==
    /\ op.name = "delete"
    /\ \/ /\ UNCHANGED faults
          /\ documents' = IF Matches(op.d, op.w)
                          THEN [x \in DOMAIN documents \ {op.d} |-> documents[x]]
                          ELSE documents
          /\ opResult' = IF Matches(op.d, op.w) THEN "true" ELSE "false"
          /\ op' = Idle
       \/ /\ OpFault
          /\ UNCHANGED documents
    /\ UNCHANGED <<document_chunks, nextId, files, now, pc, locals, failed,
                   raised, result, opsLeft, aside>>

\* The keys routes/documents.py passes on to update_document.
RouteUpdates == {[title |-> "new"]}

\* {"$set": update_data} applied to a record.
Merge(rec, update_data) ==
    [k \in DOMAIN rec |-> IF k \in DOMAIN update_data THEN update_data[k] ELSE rec[k]]

\* update_document: update_one({"_id": d, "workspace_id": w}, {"$set":
\* update_data}); None when nothing was modified, else get_document_by_id.
UpdateDocument(d, w, update_data) ==
    /\ Begin
    /\ \/ /\ UNCHANGED faults
          /\ IF Matches(d, w)
             THEN /\ documents' = [documents EXCEPT ![d] = Merge(@, update_data)]
                  /\ op' = [name |-> "update", d |-> d, w |-> w]
                  /\ UNCHANGED opResult
             ELSE /\ opResult' = "None"
                  /\ UNCHANGED <<documents, op>>
       \/ /\ OpFault
          /\ UNCHANGED documents
    /\ UNCHANGED <<document_chunks, nextId, files, now, pc, locals, failed,
                   raised, result, aside>>

\* get_document_by_id: update_one(..., {"$inc": {"access_count": 1}, ...})
RecordAccess(d, w) ==
    /\ \/ Begin
       \/ op = [name |-> "update", d |-> d, w |-> w] /\ UNCHANGED opsLeft
    /\ \/ /\ UNCHANGED faults
          /\ documents' = IF Matches(d, w)
                          THEN [documents EXCEPT ![d].access_count = @ + 1]
                          ELSE documents
          /\ op' = [name |-> "get", d |-> d, w |-> w]
          /\ UNCHANGED opResult
       \/ /\ OpFault
          /\ UNCHANGED documents
    /\ UNCHANGED <<document_chunks, nextId, files, now, pc, locals, failed,
                   raised, result, aside>>

\* get_document_by_id: find_one({"_id": d, "workspace_id": w}) and the return.
GetDocument ==
    /\ op.name = "get"
    /\ \/ /\ UNCHANGED faults
          /\ opResult' = IF Matches(op.d, op.w) THEN "document" ELSE "None"
          /\ op' = Idle
       \/ OpFault
    /\ UNCHANGED <<repo, files, now, pc, locals, failed, raised, result, opsLeft,
                   aside>>

\* ----------------------------------------------------------------- strings
Max(S) == CHOOSE x \in S : \A y \in S : y <= x
Min(S) == CHOOSE x \in S : \A y \in S : x <= y

\* The whitespace runs of a str, and those that hold offset i.
Whitespace(t) == t.sp \cup t.nl
RunsAt(t, i) == {r \in Whitespace(t) : r[1] <= i /\ i <= r[2]}

\* t[a:b].lstrip(): the offset of the first character of t[a:b] that is not
\* whitespace, b when there is none.
RECURSIVE lstrip(_, _, _)
lstrip(t, a, b) ==
    IF a < b /\ RunsAt(t, a) # {}
    THEN lstrip(t, Min({Max({r[2] : r \in RunsAt(t, a)}) + 1, b}), b)
    ELSE a

\* t[a:b].rstrip(): the offset after the last character of t[a:b] that is not
\* whitespace, a when there is none.
RECURSIVE rstrip(_, _, _)
rstrip(t, a, b) ==
    IF a < b /\ RunsAt(t, b - 1) # {}
    THEN rstrip(t, a, Max({Min({r[1] : r \in RunsAt(t, b - 1)}), a}))
    ELSE b

\* t[a:b].strip(), as the offsets [lo, hi) of t it keeps.
strip(t, a, b) ==
    LET lo == lstrip(t, a, b)
    IN [lo |-> lo, hi |-> rstrip(t, lo, b)]

\* t[a:b] as a str of its own (0 <= a, with Python's clamping of b).
Slice(t, a, b) ==
    LET e == Min({b, t.len})
        s == Min({a, e})
        cut(runs) == {<<Max({r[1], s}) - s, Min({r[2], e - 1}) - s>> :
                        r \in {x \in runs : x[1] < e /\ x[2] >= s}}
    IN [len |-> e - s,
        term |-> {x - s : x \in {y \in t.term : s <= y /\ y < e}},
        sp |-> cut(t.sp),
        nl |-> cut(t.nl)]

\* t.strip() as a str of its own.
Stripped(t) ==
    CHOOSE v \in {Slice(t, kept.lo, kept.hi) : kept \in {strip(t, 0, t.len)}} : TRUE

\* max(t.rfind('.', start, end), t.rfind('!', start, end), t.rfind('?', start, end))
rfind_terminator(t, start, end) ==
    Max({x \in t.term : start <= x /\ x < end} \cup {-1})

\* t.rfind(' ', start, end)
rfind_space(t, start, end) ==
    Max({Min({r[2], end - 1}) : r \in {x \in t.sp : x[1] < end /\ x[2] >= start}}
        \cup {-1})

\* ----------------------------------------------------------------- chunker
\* Mutant of NextStart: the overlap is the whole window.
NextStart_Stuck(end) == end - chunk_size

\* Mutant of NextStart: the overlap is added instead of subtracted.
NextStart_Forward(end) == end + chunk_overlap

\* start = end - self.chunk_overlap
NextStart(end) == end - chunk_overlap

\* The end of the window that starts at start: start + chunk_size, moved back
\* to the last sentence end or else the last space of the window when that
\* lies past a third of it and the window ends before the text does.
WindowEnd(txt, start) ==
    LET end == start + chunk_size
        sentence_end == rfind_terminator(txt, start, end)
        word_end == rfind_space(txt, start, end)
    IN IF end < txt.len
       THEN IF sentence_end > start + chunk_size \div 3 THEN sentence_end + 1
            ELSE IF word_end > start + chunk_size \div 3 THEN word_end
            ELSE end
       ELSE end

\* One pass of the while loop of _split_into_chunks with start = out.start.
\* out.list is chunks, each chunk given by the offsets [lo, hi) of the text it
\* is; out.windows records every content[start:end] the loop cut, kept or not;
\* out.capped tells that the chunk limit ended the loop; out.done that the
\* function has returned.
SplitPass(txt, out) ==
    LET start == out.start
        end == WindowEnd(txt, start)
        chunk == strip(txt, start, Min({end, txt.len}))
        list == IF chunk.hi - chunk.lo > MinChunkLength
                THEN Append(out.list, chunk)
                ELSE out.list
        windows == Append(out.windows, [start |-> start, end |-> end])
        kept == [out EXCEPT !.list = list, !.windows = windows,
                            !.start = NextStart(end)]
    IN IF NextStart(end) >= txt.len THEN [kept EXCEPT !.done = TRUE]
       ELSE IF Len(list) > max_chunks_per_document
       THEN [kept EXCEPT !.capped = TRUE, !.done = TRUE]
       ELSE kept

\* _split_into_chunks(content) up to the loop: the length check and the strip.
SplitIntoChunks ==
    /\ ~chunks.called
    /\ chunks' = [NoChunks EXCEPT !.called = TRUE,
                                  !.done = Stripped(text).len < MinSplitLength]
    /\ UNCHANGED <<repo, files, now, faults, pc, locals, failed, raised, result,
                   client, text, provider_calls, embedding, search, tabular>>

\* _split_into_chunks(content): one pass of the loop (start < len(content)
\* holds at every test of the while condition that is reached).
SplitStep ==
    /\ chunks.called /\ ~chunks.done
    /\ \E txt \in {Stripped(text)} : chunks' = SplitPass(txt, chunks)
    /\ UNCHANGED <<repo, files, now, faults, pc, locals, failed, raised, result,
                   client, text, provider_calls, embedding, search, tabular>>

\* --------------------------------------------------------------- embedding
\* not text or len(text.strip()) < 3
TooShortToEmbed(t) == t.len = 0 \/ Stripped(t).len < MinEmbeddingChars

\* Mutant of EmbeddingInput: the text is not cut.
EmbeddingInput_Uncut(t) == Stripped(t)

\* clean_text: text.strip(), cut to its first 8000 characters when longer.
EmbeddingInput(t) ==
    IF Stripped(t).len > MaxEmbeddingChars
    THEN Slice(Stripped(t), 0, MaxEmbeddingChars)
    ELSE Stripped(t)

\* generate_embedding(text) when the provider answers a call with response:
\* the inputs the provider is called with, and the vector returned ([] for a
\* text that is too short and when the call raises).
generate_embedding(t, response) ==
    IF TooShortToEmbed(t) THEN [calls |-> <<>>, value |-> <<>>]
    ELSE [calls |-> <<EmbeddingInput(t)>>,
          value |-> IF response.ok THEN response.embedding ELSE <<>>]

\* A call of generate_embedding on the text.
GenerateEmbedding(response) ==
    /\ ~embedding.called
    /\ provider_calls' = provider_calls \o generate_embedding(text, response).calls
    /\ embedding' = [called |-> TRUE,
                     value |-> generate_embedding(text, response).value]
    /\ UNCHANGED <<repo, files, now, faults, pc, locals, failed, raised, result,
                   client, text, chunks, search, tabular>>

\* ------------------------------------------------------------------ search
\* The requests: a query, a workspace (possibly not an ObjectId), a limit and
\* a threshold in percent; document_types and tags are None.
QueryTexts ==
    {[len |-> 13, term |-> {}, sp |-> {<<6, 6>>}, nl |-> {}],
     [len |-> 4, term |-> {}, sp |-> {<<0, 0>>, <<3, 3>>}, nl |-> {}]}
Limits == (0 - 1)..MaxLimit
Thresholds == {50, 90}
SearchRequests ==
    [query : QueryTexts, workspace_id : Workspaces \cup {""}, limit : Limits,
     similarity_threshold : Thresholds]

\* sum(a[i] * b[i]) from position i on
RECURSIVE DotFrom(_, _, _)
DotFrom(a, b, i) ==
    IF i > Len(a) THEN 0 ELSE a[i] * b[i] + DotFrom(a, b, i + 1)

\* The Euclidean norm of every vector of the model.
VectorNorm == 5

\* cosine_similarity([a], [b])[0][0], in percent; it raises when the two
\* vectors differ in length.
CosineRaises(a, b) == Len(a) # Len(b)
cosine_similarity(a, b) == (DotFrom(a, b, 1) * 100) \div (VectorNorm * VectorNorm)

\* seq[:k]
Take(seq, k) ==
    IF k >= 0
    THEN SubSeq(seq, 1, Min({k, Len(seq)}))
    ELSE SubSeq(seq, 1, Max({Len(seq) + k, 0}))

\* Scores are fractions n / d with d > 0.
Fraction(n, d) == [n |-> n, d |-> d]
Greater(x, y) == x.n * y.d > y.n * x.d
Same(x, y) == x.n * y.d = y.n * x.d

\* seq.sort(key=..., reverse=True), keys[i] being the key of seq[i]: by
\* falling key, elements of equal key in the order they had.
SortDescending(seq, keys) ==
    LET rank(i) == 1 + Cardinality({j \in 1..Len(seq) :
                        \/ Greater(keys[j], keys[i])
                        \/ Same(keys[j], keys[i]) /\ j < i})
    IN [r \in 1..Len(seq) |-> seq[CHOOSE i \in 1..Len(seq) : rank(i) = r]]

\* The order in which a cursor hands out records: that of their insertion,
\* document by document and chunk by chunk.
RECURSIVE CursorOrder(_)
CursorOrder(S) ==
    IF S = {} THEN <<>>
    ELSE LET first == CHOOSE x \in S : \A y \in S :
                        \/ x.document_id < y.document_id
                        \/ x.document_id = y.document_id /\ x.chunk_index <= y.chunk_index
         IN <<first>> \o CursorOrder(S \ {first})

\* $lookup from documents, localField document_id, foreignField _id: the
\* chunk's document_id equals the _id of a document, which is an ObjectId.
LookupMatches(c) == c.id_type = "ObjectId" /\ c.document_id \in DOMAIN documents

\* vector_search_pipeline: the chunks of the workspace that have an embedding,
\* joined to their document ($unwind drops those without one), of documents
\* that are ready.
Pipeline(req) ==
    {c \in document_chunks :
        /\ c.workspace_id = req.workspace_id
        /\ LookupMatches(c)
        /\ documents[c.document_id].status = READY}

\* Mutant of MeetsThreshold: every chunk passes.
MeetsThreshold_Always(similarity, req) == TRUE

\* similarity >= search_request.similarity_threshold
MeetsThreshold(similarity, req) == similarity >= req.similarity_threshold

\* The async for loop: the chunks with an embedding whose similarity can be
\* computed and meets the threshold, each with its similarity_score.
RECURSIVE Matching(_, _, _)
Matching(cursor, req, q) ==
    IF cursor = <<>> THEN <<>>
    ELSE LET chunk == Head(cursor)
             rest == Matching(Tail(cursor), req, q)
         IN IF chunk.embedding = <<>> THEN rest
            ELSE IF CosineRaises(q, chunk.embedding) THEN rest
            ELSE IF MeetsThreshold(cosine_similarity(q, chunk.embedding), req)
            THEN <<[chunk |-> chunk,
                    similarity_score |-> cosine_similarity(q, chunk.embedding)]>>
                 \o rest
            ELSE rest

\* chunks.sort(key=lambda x: x["similarity_score"], reverse=True)
SortedBySimilarity(matching) ==
    SortDescending(matching,
                   [i \in 1..Len(matching) |-> Fraction(matching[i].similarity_score, 1)])

\* chunks[:search_request.limit * 5]
Considered(sorted, req) == Take(sorted, req.limit * 5)

\* document_results after the chunks from position i on are grouped: one entry
\* per document, in the order the documents first come up.
RECURSIVE Grouped(_, _, _)
Grouped(list, i, document_results) ==
    IF i > Len(list) THEN document_results
    ELSE LET doc_id == list[i].chunk.document_id
             known == {g \in 1..Len(document_results) :
                            document_results[g].document = doc_id}
             with == IF known = {}
                     THEN Append(document_results,
                                 [document |-> doc_id, chunks |-> <<>>,
                                  max_similarity |-> 0, total_similarity |-> 0,
                                  chunk_count |-> 0])
                     ELSE document_results
             g == CHOOSE x \in 1..Len(with) : with[x].document = doc_id
             entry == with[g]
         IN Grouped(list, i + 1,
                [with EXCEPT ![g] =
                    [document |-> doc_id,
                     chunks |-> Append(entry.chunks, list[i].chunk),
                     max_similarity |-> Max({entry.max_similarity,
                                             list[i].similarity_score}),
                     total_similarity |-> entry.total_similarity
                                          + list[i].similarity_score,
                     chunk_count |-> entry.chunk_count + 1]])

\* (max_similarity * 0.6) + (avg_similarity * 0.4), avg_similarity being
\* total_similarity / chunk_count.
Relevance(max_similarity, total_similarity, chunk_count) ==
    Fraction(6 * max_similarity * chunk_count + 4 * total_similarity,
             10 * chunk_count)

\* SearchResult(document, chunks[:5], similarity_score, relevance_score)
SearchResult(entry) ==
    [document |-> entry.document,
     chunks |-> Take(entry.chunks, 5),
     similarity_score |-> entry.max_similarity,
     relevance_score |-> Relevance(entry.max_similarity, entry.total_similarity,
                                   entry.chunk_count)]

\* Mutant of SortedByRelevance: the results stay in the order of grouping.
SortedByRelevance_Unsorted(results) == results

\* search_results.sort(key=lambda x: x.relevance_score, reverse=True)
SortedByRelevance(results) ==
    SortDescending(results, [i \in 1..Len(results) |-> results[i].relevance_score])

\* search_results[:search_request.limit]
FinalResults(results, req) == Take(results, req.limit)

\* What search_documents returns once the cursor is read, q being the query
\* embedding.
SearchResults(req, q) ==
    LET matching == Matching(CursorOrder(Pipeline(req)), req, q)
        document_results == Grouped(Considered(SortedBySimilarity(matching), req),
                                    1, <<>>)
        search_results_ == [i \in 1..Len(document_results) |->
                                SearchResult(document_results[i])]
    IN FinalResults(SortedByRelevance(search_results_), req)

\* search_documents up to the aggregate: the query embedding (an empty result
\* when there is none) and the pipeline, where ObjectId(workspace_id) raises on
\* a string that is no ObjectId, which the except clause answers with [].
Search(req, response) ==
    /\ search_pc = "idle"
    /\ search_request' = req
    /\ provider_calls' = provider_calls \o generate_embedding(req.query, response).calls
    /\ query_embedding' = generate_embedding(req.query, response).value
    /\ IF generate_embedding(req.query, response).value = <<>>
       THEN /\ search_results' = [returned |-> TRUE, error |-> FALSE, list |-> <<>>]
            /\ search_pc' = "done"
       ELSE IF req.workspace_id = ""
       THEN /\ search_results' = [returned |-> TRUE, error |-> TRUE, list |-> <<>>]
            /\ search_pc' = "done"
       ELSE /\ search_pc' = "aggregate"
            /\ UNCHANGED search_results
    /\ UNCHANGED <<repo, files, now, faults, pc, locals, failed, raised, result,
                   client, text, chunks, embedding, tabular>>

\* Mutant of Aggregate: the search counts an access on every document it
\* returns.
Aggregate_RecordsAccess ==
    /\ search_pc = "aggregate"
    /\ UNCHANGED faults
    /\ search_results' =
          [returned |-> TRUE, error |-> FALSE,
           list |-> SearchResults(search_request, query_embedding)]
    /\ documents' =
          [d \in DOMAIN documents |->
              IF d \in {r.document :
                          r \in {search_results'.list[i] :
                                    i \in 1..Len(search_results'.list)}}
              THEN [documents[d] EXCEPT !.access_count = @ + 1]
              ELSE documents[d]]
    /\ search_pc' = "done"
    /\ UNCHANGED <<document_chunks, nextId, files, now, pc, locals, failed,
                   raised, result, client, text, chunks, provider_calls,
                   embedding, search_request, query_embedding, tabular>>

\* search_documents from the aggregate on: the cursor is read, the results are
\* built and returned; when the repository raises, the except clause returns [].
Aggregate ==
    /\ search_pc = "aggregate"
    /\ \/ /\ UNCHANGED faults
          /\ search_results' =
                [returned |-> TRUE, error |-> FALSE,
                 list |-> SearchResults(search_request, query_embedding)]
       \/ /\ faults > 0
          /\ faults' = faults - 1
          /\ search_results' = [returned |-> TRUE, error |-> TRUE, list |-> <<>>]
    /\ search_pc' = "done"
    /\ UNCHANGED <<repo, files, now, pc, locals, failed, raised, result, client,
                   text, chunks, provider_calls, embedding, search_request,
                   query_embedding, tabular>>

\* --------------------------------------------------------- tabular text
\* A line of text: what it is, the worksheet and the row it renders, its
\* length without the whitespace in front of it, and the length of that
\* whitespace.
Line(kind, sheet, row, length, pad) ==
    [kind |-> kind, sheet |-> sheet, row |-> row, len |-> length, pad |-> pad]
BlankLine == Line("blank", 0, 0, 0, 0)

\* The worksheets of a workbook: the length of the name, whether the sheet is
\* empty, the length of its "Headers: ..." line (0 when no header row was
\* detected) and its rows, each given by the lengths of the lines it renders
\* to: "Row k: ..." and, when a cell holds line breaks, the lines after it.
NameLens == {1, 31}
HeadersLens == {0, 30}
RowShapes == {<<390>>, <<400>>, <<782>>, <<783>>, <<390, 5>>}
RowsUpTo(n) == UNION {[1..k -> RowShapes] : k \in 0..n}
Worksheets ==
    [name_len : NameLens, empty : {FALSE}, headers : HeadersLens, rows : RowsUpTo(MaxRows)]
    \cup [name_len : NameLens, empty : {TRUE}, headers : {0}, rows : {<<>>}]
LaterWorksheets ==
    {[name_len |-> 6, empty |-> TRUE, headers |-> 0, rows |-> <<>>],
     [name_len |-> 6, empty |-> FALSE, headers |-> 30, rows |-> <<<<400>>, <<400>>>>]}
Workbooks ==
    {<<first>> \o rest :
        first \in Worksheets,
        rest \in UNION {[1..k -> LaterWorksheets] : k \in 0..(MaxSheets - 1)}}
ExcelFileNames == {"a.xlsx", "b.xls"}

\* The lines rows render to from row k on: current_chunk joined by "\n".
RECURSIVE RowLines(_, _, _)
RowLines(rows, n, k) ==
    IF k > Len(rows) THEN <<>>
    ELSE <<Line("row", n, k, rows[k][1], 0)>>
         \o [j \in 1..(Len(rows[k]) - 1) |-> Line("cont", n, k, rows[k][j + 1], 1)]
         \o RowLines(rows, n, k + 1)

\* _extract_worksheet_content_openpyxl(worksheet, sheet_name, sheet_number),
\* as the lines of the text it returns, for worksheets of fewer rows than
\* max_rows_per_chunk.
_extract_worksheet_content(ws, sheet_number) ==
    <<Line("marker", sheet_number, 0, MarkerFrameLen + ws.name_len, 0)>>
    \o (IF ws.empty
        THEN <<Line("empty", sheet_number, 0, EmptyWorksheetLen, 0)>>
        ELSE (IF ws.headers > 0
              THEN <<Line("headers", sheet_number, 0, ws.headers, 0), BlankLine>>
              ELSE <<>>)
             \o RowLines(ws.rows, sheet_number, 1))

\* "\n\n".join(all_content) from worksheet sheet_idx + 1 on.
RECURSIVE _process_xlsx_file(_, _)
_process_xlsx_file(workbook, sheet_idx) ==
    IF sheet_idx >= Len(workbook) THEN <<>>
    ELSE _extract_worksheet_content(workbook[sheet_idx + 1], sheet_idx + 1)
         \o (IF sheet_idx + 1 < Len(workbook) THEN <<BlankLine>> ELSE <<>>)
         \o _process_xlsx_file(workbook, sheet_idx + 1)

\* The calls of create_excel_chunks: the text of a workbook and a file name.
ExcelInputs ==
    {[content |-> _process_xlsx_file(w, 0), filename |-> f] :
        w \in Workbooks, f \in ExcelFileNames}

\* ------------------------------------------------------ tabular chunker
\* The positions of the lines that hold "=== WORKSHEET".
Markers(txt) == {i \in 1..Len(txt) : txt[i].kind = "marker"}

\* What a marker line holds after "=== WORKSHEET": " n: name ===".
Remainder(line) ==
    [line EXCEPT !.kind = "header", !.len = line.len - SplitMarkerLen - 1, !.pad = 1]

\* content.split("=== WORKSHEET"), as lines: section 0 is the text before the
\* first marker, section k what follows the k-th marker up to the next one.
worksheet_sections(txt) ==
    LET M == Markers(txt)
        At(k) == CHOOSE i \in M : Cardinality({j \in M : j < i}) = k - 1
        Before(i) == Min({j \in M : j > i} \cup {Len(txt) + 1}) - 1
    IN [k \in 0..Cardinality(M) |->
           IF k = 0 THEN SubSeq(txt, 1, Before(0))
           ELSE <<Remainder(txt[At(k)])>>
                \o SubSeq(txt, At(k) + 1, Before(At(k)))]

\* section.strip().split('\n'): the lines of the section without the blank
\* lines at its ends and without the whitespace in front of the first line;
\* <<>> when the section is blank.
SectionLines(section) ==
    LET filled == {i \in 1..Len(section) : section[i].len > 0}
    IN IF filled = {} THEN <<>>
       ELSE [SubSeq(section, Min(filled), Max(filled)) EXCEPT ![1].pad = 0]

\* worksheet_info = f"WORKSHEET {worksheet_header}", and "" for section 0.
NoInfo == Line("none", 0, 0, 0, 0)
WorksheetInfo(section_idx, lines) ==
    IF section_idx > 0
    THEN Line("info", lines[1].sheet, 0, InfoPrefixLen + lines[1].len + lines[1].pad, 0)
    ELSE NoInfo

\* Mutant of Metadata: the sections are counted from the first worksheet.
Metadata_ZeroBased(current_chunk_lines, ctx) ==
    [source_file |-> ctx.filename,
     worksheet_section |-> ctx.section_idx - 1,
     chunk_type |-> "excel_data",
     has_headers |-> \E i \in 1..Len(current_chunk_lines) :
                        current_chunk_lines[i].kind = "headers",
     row_count |-> Cardinality({i \in 1..Len(current_chunk_lines) :
                                   current_chunk_lines[i].kind = "row"}),
     worksheet_info |-> ctx.worksheet_info]

\* The metadata of a chunk.
Metadata(current_chunk_lines, ctx) ==
    [source_file |-> ctx.filename,
     worksheet_section |-> ctx.section_idx,
     chunk_type |-> "excel_data",
     has_headers |-> \E i \in 1..Len(current_chunk_lines) :
                        current_chunk_lines[i].kind = "headers",
     row_count |-> Cardinality({i \in 1..Len(current_chunk_lines) :
                                   current_chunk_lines[i].kind = "row"}),
     worksheet_info |-> ctx.worksheet_info]

\* chunks.append({...}) when chunk_content.strip() is not empty; the content
\* is the lines that "\n".join puts together.
Flushed(out, current_chunk_lines, ctx) ==
    IF \E i \in 1..Len(current_chunk_lines) : current_chunk_lines[i].len > 0
    THEN Append(out, [content |-> current_chunk_lines,
                      metadata |-> Metadata(current_chunk_lines, ctx)])
    ELSE out

\* Mutant of ContextAfterFlush: only the first chunk of a section gets the
\* context line.
ContextAfterFlush_None(worksheet_info) == <<>>

\* The lines a chunk started after a flush begins with: the worksheet context
\* when there is one.
ContextAfterFlush(worksheet_info) ==
    IF worksheet_info.len > 0 THEN <<worksheet_info>> ELSE <<>>

\* line.strip()
strip_line(line) == [line EXCEPT !.pad = 0]

\* Mutant of AddLine: the line that does not fit is dropped with the flush.
AddLine_DropsOnFlush(acc, raw, ctx) ==
    LET line == strip_line(raw)
        first == acc.current_chunk_lines = <<>> /\ ctx.worksheet_info.len > 0
        lines == IF first THEN <<ctx.worksheet_info>> ELSE acc.current_chunk_lines
        size == IF first THEN acc.current_chunk_size + ctx.worksheet_info.len
                ELSE acc.current_chunk_size
        flush == size + line.len > max_chunk_size /\ lines # <<>>
        started == ContextAfterFlush(ctx.worksheet_info)
    IN IF line.len = 0 THEN acc
       ELSE IF flush
       THEN [current_chunk_lines |-> started,
             current_chunk_size |-> IF started = <<>> THEN 0 ELSE ctx.worksheet_info.len,
             out |-> Flushed(acc.out, lines, ctx)]
       ELSE [current_chunk_lines |-> Append(lines, line),
             current_chunk_size |-> size + line.len,
             out |-> acc.out]

\* One pass of the loop over worksheet_content: a blank line is skipped; the
\* first line of a chunk is preceded by the worksheet context; when the line
\* would take the chunk past max_chunk_size the chunk is flushed and a new one
\* started; then the line is added.
AddLine(acc, raw, ctx) ==
    LET line == strip_line(raw)
        first == acc.current_chunk_lines = <<>> /\ ctx.worksheet_info.len > 0
        lines == IF first THEN <<ctx.worksheet_info>> ELSE acc.current_chunk_lines
        size == IF first THEN acc.current_chunk_size + ctx.worksheet_info.len
                ELSE acc.current_chunk_size
        flush == size + line.len > max_chunk_size /\ lines # <<>>
        started == ContextAfterFlush(ctx.worksheet_info)
    IN IF line.len = 0 THEN acc
       ELSE IF flush
       THEN [current_chunk_lines |-> Append(started, line),
             current_chunk_size |-> (IF started = <<>> THEN 0 ELSE ctx.worksheet_info.len)
                                    + line.len,
             out |-> Flushed(acc.out, lines, ctx)]
       ELSE [current_chunk_lines |-> Append(lines, line),
             current_chunk_size |-> size + line.len,
             out |-> acc.out]

\* The loop over worksheet_content from line i on.
RECURSIVE Accumulate(_, _, _, _)
Accumulate(worksheet_content, i, acc, ctx) ==
    IF i > Len(worksheet_content) THEN acc
    ELSE Accumulate(worksheet_content, i + 1,
                    AddLine(acc, worksheet_content[i], ctx), ctx)

\* The body of the loop over worksheet_sections: chunks after the section.
SectionChunks(section_idx, section, filename, out) ==
    LET lines == SectionLines(section)
        ctx == [filename |-> filename, section_idx |-> section_idx,
                worksheet_info |-> WorksheetInfo(section_idx, lines)]
        worksheet_content == IF section_idx > 0 THEN Tail(lines) ELSE lines
        acc == Accumulate(worksheet_content, 1,
                          [current_chunk_lines |-> <<>>, current_chunk_size |-> 0,
                           out |-> out], ctx)
    IN IF lines = <<>> THEN out
       ELSE IF acc.current_chunk_lines # <<>>
       THEN Flushed(acc.out, acc.current_chunk_lines, ctx)
       ELSE acc.out

\* create_excel_chunks(content, filename) from section section_idx on.
RECURSIVE ChunksFrom(_, _, _, _)
ChunksFrom(sections, section_idx, filename, out) ==
    IF section_idx \notin DOMAIN sections THEN out
    ELSE ChunksFrom(sections, section_idx + 1, filename,
                    SectionChunks(section_idx, sections[section_idx], filename, out))

create_excel_chunks(input) ==
    ChunksFrom(worksheet_sections(input.content), 0, input.filename, <<>>)

\* A call of create_excel_chunks returns.
CreateExcelChunks ==
    /\ ~excel_chunks.returned
    /\ excel_chunks' = [returned |-> TRUE, list |-> create_excel_chunks(excel_input)]
    /\ UNCHANGED <<repo, files, now, faults, pc, locals, failed, raised, result,
                   client, text, chunks, provider_calls, embedding, search,
                   excel_input>>

\* ---------------------------------------------------------- specifications
DocIds == 1..NumProcs

\* routes/documents.py: each of get, update and delete first looks the
\* document up by id (404 when there is none) and calls the service with the
\* workspace of the record it found.
RouteFinds(d, w) == op = Idle /\ Matches(d, w)

\* One upload request of any file, running concurrently with the gets, updates
\* and deletes the routes issue.
Next ==
    \/ \E f \in AllUploads, w \in Workspaces \cup {""} : Upload(1, f, w)
    \/ SaveOpen(1)
    \/ SaveWrite(1)
    \/ ExtractText(1)
    \/ InsertOne(1)
    \/ \E F \in FailSets(Capped(SplitCount(content[1]))) : FindOne(1, F)
    \/ InsertMany(1)
    \/ UpdateChunkCount(1)
    \/ SetReady(1)
    \/ ExceptHandler(1)
    \/ \E d \in DocIds, w \in Workspaces : RouteFinds(d, w) /\ DeleteChunks(d, w)
    \/ DeleteDocument
    \/ \E d \in DocIds, w \in Workspaces, u \in RouteUpdates :
          RouteFinds(d, w) /\ UpdateDocument(d, w, u)
    \/ \E d \in DocIds, w \in Workspaces :
          (RouteFinds(d, w) \/ op.name = "update") /\ RecordAccess(d, w)
    \/ GetDocument

Spec == Init /\ [][Next]_vars

\* Concurrent upload requests of accepted files, while the clock runs.
NextUploads ==
    \/ \E p \in Procs, f \in ValidUploads, w \in Workspaces : Upload(p, f, w)
    \/ \E p \in Procs : SaveOpen(p)
    \/ \E p \in Procs : SaveWrite(p)
    \/ \E p \in Procs : ExtractText(p)
    \/ \E p \in Procs : InsertOne(p)
    \/ \E p \in Procs, F \in SUBSET (1..MaxChunks) : FindOne(p, F)
    \/ \E p \in Procs : InsertMany(p)
    \/ \E p \in Procs : UpdateChunkCount(p)
    \/ \E p \in Procs : SetReady(p)
    \/ \E p \in Procs : ExceptHandler(p)
    \/ Tick

SpecUploads == Init /\ [][NextUploads]_vars

\* The generic chunker, run on one text.
InitChunker ==
    /\ InitIngest
    /\ InitSearch
    /\ text \in Texts
    /\ chunks = NoChunks
    /\ provider_calls = <<>>
    /\ embedding = NoEmbedding
    /\ InitTabular

NextChunker == SplitIntoChunks \/ SplitStep

SpecChunker == InitChunker /\ [][NextChunker]_vars

\* The same under the scheduling of the code: _split_into_chunks is a
\* synchronous function, so a call that has begun goes on to its next pass.
SpecChunkerRuns == SpecChunker /\ WF_vars(NextChunker)

\* generate_embedding, called on one text.
InitEmbedding ==
    /\ InitIngest
    /\ InitSearch
    /\ text \in EmbeddingTexts
    /\ chunks = NoChunks
    /\ provider_calls = <<>>
    /\ embedding = NoEmbedding
    /\ InitTabular

NextEmbedding == \E response \in Responses : GenerateEmbedding(response)

SpecEmbedding == InitEmbedding /\ [][NextEmbedding]_vars

\* A document record and the chunk records of a document as the search
\* pipeline joins them: document_id holds the document's ObjectId.  vs are the
\* embeddings of the chunks, in chunk order.
StoredDocument(w, status, n) ==
    [workspace_id |-> w, status |-> status, chunk_count |-> n,
     content |-> NoContent, title |-> "orig", access_count |-> 0]
StoredChunks(d, w, vs) ==
    {[document_id |-> d, id_type |-> "ObjectId", workspace_id |-> w,
      chunk_index |-> i - 1, owner |-> 0, embedding |-> vs[i]] : i \in 1..Len(vs)}

\* The repositories a search starts from: an empty one; one with documents of
\* two workspaces, ready and processing, with chunks near the query and far
\* from it, one chunk with a vector of another length and one with none; and
\* one with a document of MaxStoredChunks chunks and a document of one.
Stores ==
    {[documents |-> <<>>, document_chunks |-> {}],
     [documents |->
        (11 :> StoredDocument("w1", READY, 4))
        @@ (12 :> StoredDocument("w1", READY, 2))
        @@ (13 :> StoredDocument("w1", PROCESSING, 1))
        @@ (14 :> StoredDocument("w2", READY, 1))
        @@ (15 :> StoredDocument("w1", READY, 2)),
      document_chunks |->
        StoredChunks(11, "w1", <<<<5, 0>>, <<3, 4>>, <<5>>, <<>>>>)
        \cup StoredChunks(12, "w1", <<<<4, 3>>, <<4, 3>>>>)
        \cup StoredChunks(13, "w1", <<<<5, 0>>>>)
        \cup StoredChunks(14, "w2", <<<<5, 0>>>>)
        \cup StoredChunks(15, "w1", <<<<0, 5>>, <<0 - 3, 4>>>>)],
     [documents |->
        (11 :> StoredDocument("w1", READY, MaxStoredChunks))
        @@ (12 :> StoredDocument("w1", READY, 1)),
      document_chunks |->
        StoredChunks(11, "w1", <<<<5, 0>>, <<5, 0>>>>
                               \o [i \in 1..(MaxStoredChunks - 2) |-> <<4, 3>>])
        \cup StoredChunks(12, "w1", <<<<3, 4>>>>)]}

\* The uploads that run beside a search.
SearchUploads == {f \in ValidUploads : f.filename.stem = "a"}

\* One search request over a repository, beside one upload request.
InitSearches ==
    /\ \E store \in Stores :
          /\ documents = store.documents
          /\ document_chunks = store.document_chunks
    /\ InitRequests
    /\ InitSearch
    /\ text = NoText
    /\ chunks = NoChunks
    /\ provider_calls = <<>>
    /\ embedding = NoEmbedding
    /\ InitTabular

NextSearch ==
    \/ \E f \in SearchUploads : Upload(1, f, "w1")
    \/ SaveOpen(1)
    \/ SaveWrite(1)
    \/ ExtractText(1)
    \/ InsertOne(1)
    \/ \E F \in FailSets(Capped(SplitCount(content[1]))) : FindOne(1, F)
    \/ InsertMany(1)
    \/ UpdateChunkCount(1)
    \/ SetReady(1)
    \/ ExceptHandler(1)
    \/ \E req \in SearchRequests, response \in Responses : Search(req, response)
    \/ Aggregate

SpecSearch == InitSearches /\ [][NextSearch]_vars

\* The chunk records of a document as ingest wrote them: document_id holds the
\* document's id as a string.
IngestedChunks(d, w, vs) ==
    {[document_id |-> d, id_type |-> "str", workspace_id |-> w,
      chunk_index |-> i - 1, owner |-> 0, embedding |-> vs[i]] : i \in 1..Len(vs)}

\* A repository with documents of both workspaces: two with the chunks ingest
\* wrote and two with chunks the search pipeline joins.
ServiceStore ==
    [documents |->
        (11 :> StoredDocument("w1", READY, 2))
        @@ (12 :> StoredDocument("w2", READY, 1))
        @@ (13 :> StoredDocument("w1", READY, 1))
        @@ (14 :> StoredDocument("w2", READY, 2)),
     document_chunks |->
        IngestedChunks(11, "w1", <<<<5, 0>>, <<4, 3>>>>)
        \cup IngestedChunks(12, "w2", <<<<5, 0>>>>)
        \cup StoredChunks(13, "w1", <<<<5, 0>>>>)
        \cup StoredChunks(14, "w2", <<<<5, 0>>, <<4, 3>>>>)]

\* The document ids the service is called with: one of each workspace and one
\* that is not stored.
ServiceIds == {11, 12, 19}

InitService ==
    /\ documents = ServiceStore.documents
    /\ document_chunks = ServiceStore.document_chunks
    /\ InitRequests
    /\ InitSearch
    /\ text = NoText
    /\ chunks = NoChunks
    /\ provider_calls = <<>>
    /\ embedding = NoEmbedding
    /\ InitTabular

\* The service's get, update, delete and search called with any document id
\* and any workspace, one after the other, over failing repository calls.
NextService ==
    \/ \E d \in ServiceIds, w \in Workspaces : DeleteChunks(d, w)
    \/ DeleteDocument
    \/ \E d \in ServiceIds, w \in Workspaces, u \in RouteUpdates :
          UpdateDocument(d, w, u)
    \/ \E d \in ServiceIds, w \in Workspaces : RecordAccess(d, w)
    \/ GetDocument
    \/ \E req \in SearchRequests, response \in Responses : Search(req, response)
    \/ Aggregate

SpecService == InitService /\ [][NextService]_vars

\* One upload request over a repository that fails for a while: one call more
\* than MaxFaults may fail, so that a write and the write of the except clause
\* after it can both fail.
OutageFaults == MaxFaults + 1

InitOutage ==
    /\ documents = <<>>
    /\ document_chunks = {}
    /\ InitCalls(OutageFaults)
    /\ InitSearch
    /\ text = NoText
    /\ chunks = NoChunks
    /\ provider_calls = <<>>
    /\ embedding = NoEmbedding
    /\ InitTabular

NextOutage ==
    \/ \E f \in ValidUploads, w \in Workspaces : Upload(1, f, w)
    \/ SaveOpen(1)
    \/ SaveWrite(1)
    \/ ExtractText(1)
    \/ InsertOne(1)
    \/ \E F \in FailSets(Capped(SplitCount(content[1]))) : FindOne(1, F)
    \/ InsertMany(1)
    \/ UpdateChunkCount(1)
    \/ SetReady(1)
    \/ ExceptHandler(1)

SpecOutage == InitOutage /\ [][NextOutage]_vars

\* One call of the tabular chunker on the text of a workbook.
InitExcel ==
    /\ InitIngest
    /\ InitSearch
    /\ text = NoText
    /\ chunks = NoChunks
    /\ provider_calls = <<>>
    /\ embedding = NoEmbedding
    /\ excel_input \in ExcelInputs
    /\ excel_chunks = NoExcelChunks

NextExcel == CreateExcelChunks

SpecExcel == InitExcel /\ [][NextExcel]_vars

\* ------------------------------------------------------------------ claims
\* The stored chunk records of document d.
ChunksOf(d) == {c \in document_chunks : c.document_id = d}

\* No request is in progress.
Quiescent == op = Idle /\ \A p \in Procs : pc[p] \in {"idle", "done"}

\* The upload of request p ran with every repository call succeeding and with
\* no get, update or delete issued beside it.
Undisturbed(p) == failed[p] = {} /\ opsLeft = MaxOps /\ faults = MaxFaults

\* C1: once every request has returned, every stored document whose status is
\* ready has chunk_count equal to the number of stored chunks that carry its
\* id, also when a repository write failed on the way.
C1_ReadyChunkCount ==
    Quiescent =>
        \A d \in DOMAIN documents :
            documents[d].status = READY =>
                documents[d].chunk_count = Cardinality(ChunksOf(d))

\* C2: whenever no delete is in progress, every stored chunk references a
\* stored document of the same workspace.
C2_NoOrphanChunks ==
    op.name # "delete" =>
        \A c \in document_chunks :
            /\ c.document_id \in DOMAIN documents
            /\ documents[c.document_id].workspace_id = c.workspace_id

\* C3: when the embedding loop is handed n chunks and the embedding call fails
\* for k of them, the upload still returns a document: exactly the n - k
\* chunks whose embedding succeeded are stored, chunk_count is n - k and the
\* status is ready (also for k = n).
C3_EmbeddingFailuresSkipped ==
    \A p \in Procs :
        (pc[p] = "done" /\ document_id[p] # NoDoc /\ Undisturbed(p)) =>
            LET d == document_id[p]
                n == Capped(SplitCount(content[p]))
                k == Cardinality(embedding_failed[p])
            IN /\ result[p].kind = "document"
               /\ d \in DOMAIN documents
               /\ {c.chunk_index + 1 : c \in ChunksOf(d)} = (1..n) \ embedding_failed[p]
               /\ Cardinality(ChunksOf(d)) = n - k
               /\ documents[d].chunk_count = n - k
               /\ documents[d].status = READY

\* C3 witness: an upload of two chunks, one of which failed to embed, has returned.
C3_Witness ==
    /\ pc[1] = "done" /\ document_id[1] # NoDoc /\ Undisturbed(1)
    /\ Capped(SplitCount(content[1])) = 2
    /\ Cardinality(embedding_failed[1]) = 1

\* The upload fails validation or extraction: unsupported suffix, size
\* metadata over the limit, an extractor error, or too little text.
FailsValidationOrExtraction(f) ==
    \/ ~(f.filename.ext \in valid_extensions)
    \/ f.size > max_file_size
    \/ f.body.corrupt
    \/ f.body.len < MinContentLength

\* C4: an upload that fails validation or extraction inserts nothing: no
\* document, no chunk, and the request ends in a failure.
C4_NoInsertOnRejectedUpload ==
    \A p \in Procs :
        (pc[p] # "idle" /\ FailsValidationOrExtraction(file[p])) =>
            /\ documents = <<>>
            /\ document_chunks = {}
            /\ nextId = 1
            /\ document_id[p] = NoDoc
            /\ pc[p] = "done" => result[p].kind = "raised"

\* C4 witness: a .txt file within the size limit whose text is too short was
\* saved, extracted and rejected.
C4_Witness ==
    /\ pc[1] = "done"
    /\ file[1].filename.ext = ".txt" /\ file[1].size = SmallSize
    /\ ~file[1].body.corrupt /\ file[1].body.len < MinContentLength
    /\ raised[1].detail = "Document content is too short"

\* The failure type a caller reads off an exception.
FailureType(e) ==
    IF e.detail = "Invalid file type" THEN "UnsupportedType"
    ELSE IF e.detail = "File size too large" THEN "FileTooLarge"
    ELSE IF e.detail = "Document content is too short" THEN "ExtractionEmpty"
    ELSE "Internal"

\* C5: the failure an upload returns identifies its cause: it carries the
\* type of the exception that was raised.
C5_TypedFailures ==
    \A p \in Procs :
        (pc[p] = "done" /\ result[p].kind = "raised") =>
            FailureType(result[p]) = FailureType(raised[p])

\* C6: when find_one, insert_many or the chunk_count update fails during chunk
\* processing, the upload does not end in ready: the stored status is error
\* and the caller gets the failure.
C6_ChunkProcessingFailureSurfaces ==
    \A p \in Procs :
        (/\ pc[p] = "done"
         /\ failed[p] \cap {"find_one", "insert_many", "update_count"} # {}
         /\ opsLeft = MaxOps) =>
            /\ result[p].kind = "raised"
            /\ documents[document_id[p]].status = ERROR

\* C7: a document record is created in processing, and every later change of
\* its status goes from processing to ready or from processing to error.
C7_StatusTransitions ==
    [][\A d \in DOMAIN documents' :
          IF d \in DOMAIN documents
          THEN \/ documents'[d].status = documents[d].status
               \/ /\ documents[d].status = PROCESSING
                  /\ documents'[d].status \in {READY, ERROR}
          ELSE documents'[d].status = PROCESSING]_vars

\* C7 witness: an upload whose status update failed has marked its document
\* as error.
C7_Witness ==
    /\ pc[1] = "done" /\ "set_ready" \in failed[1]
    /\ document_id[1] \in DOMAIN documents
    /\ documents[document_id[1]].status = ERROR

\* C8: the document a successful upload returns agrees with the stored
\* record: status ready, chunk_count the number of stored chunks.
C8_ReturnedDocumentAgrees ==
    \A p \in Procs :
        (pc[p] = "done" /\ result[p].kind = "document" /\ Undisturbed(p)) =>
            /\ result[p].status = documents[result[p].id].status
            /\ result[p].chunk_count = documents[result[p].id].chunk_count
            /\ result[p].chunk_count = Cardinality(ChunksOf(result[p].id))

\* C9: concurrent uploads do not interfere: an upload whose repository calls
\* all succeed returns a document, and its content and chunks come from its
\* own bytes.
C9_UploadsIndependent ==
    \A p \in Procs :
        (pc[p] = "done" /\ failed[p] = {}) =>
            /\ result[p].kind = "document"
            /\ documents[document_id[p]].content.owner = p
            /\ \A c \in ChunksOf(document_id[p]) : c.owner = p

\* C10: a file of more bytes than max_file_size is rejected before it is saved,
\* extracted or persisted, whatever size metadata comes with it.
C10_OversizeRejected ==
    \A p \in Procs :
        file[p].nbytes > max_file_size =>
            /\ pc[p] \in {"idle", "done"}
            /\ file_path[p] = NoPath
            /\ document_id[p] = NoDoc

\* C11: _split_into_chunks returns at most max_chunks_per_document chunks for
\* every text.
C11_ChunkerCap ==
    chunks.done => Len(chunks.list) <= max_chunks_per_document

\* The windows of a run of the chunker over the text t: the first starts at
\* offset 0, each next one starts chunk_overlap characters before the end of
\* the one before, and the last one reaches the end of the text.
WindowsCover(t, out) ==
    LET w == out.windows
    IN /\ Len(w) > 0
       /\ w[1].start = 0
       /\ \A i \in 1..(Len(w) - 1) : w[i + 1].start = w[i].end - chunk_overlap
       /\ w[Len(w)].end >= t.len

\* The chunks of a run over the text t reconstruct t: they come in text order,
\* and every character of t that is not whitespace lies in a chunk, or in a
\* window that was dropped for trimming to at most MinChunkLength characters.
Reconstructs(t, out) ==
    LET w == out.windows
        c == out.list
        dropped(i) ==
            LET k == strip(t, w[i].start, Min({w[i].end, t.len}))
            IN k.hi - k.lo <= MinChunkLength
    IN /\ \A k \in 1..(Len(c) - 1) : c[k].lo < c[k + 1].lo /\ c[k].hi <= c[k + 1].hi
       /\ \A x \in 0..(t.len - 1) :
            \/ RunsAt(t, x) # {}
            \/ \E k \in 1..Len(c) : c[k].lo <= x /\ x < c[k].hi
            \/ \E i \in 1..Len(w) : w[i].start <= x /\ x < w[i].end /\ dropped(i)

C13_ProviderInputTrimmedLength ==
    /\ \A i \in 1..Len(provider_calls) :
          /\ Stripped(provider_calls[i]).len >= MinEmbeddingChars
          /\ provider_calls[i].len <= MaxEmbeddingChars
    /\ (embedding.called /\ Stripped(text).len < MinEmbeddingChars) =>
          provider_calls = <<>> /\ embedding.value = <<>>

\* C13 amended: the provider is only called for a text whose trimmed length is
\* at least 3, with the first 8000 characters of the trimmed text, which are
\* at least 3 and at most 8000 characters; a text that trims to fewer than 3
\* characters returns [] without a call.
C13_ProviderInput ==
    /\ \A i \in 1..Len(provider_calls) :
          /\ Stripped(text).len >= MinEmbeddingChars
          /\ provider_calls[i].len >= MinEmbeddingChars
          /\ provider_calls[i].len <= MaxEmbeddingChars
          /\ provider_calls[i] = Slice(text, strip(text, 0, text.len).lo,
                                       strip(text, 0, text.len).lo + provider_calls[i].len)
          /\ provider_calls[i].len < MaxEmbeddingChars =>
                provider_calls[i].len = Stripped(text).len
    /\ Len(provider_calls) <= 1
    /\ (embedding.called /\ Stripped(text).len < MinEmbeddingChars) =>
          provider_calls = <<>> /\ embedding.value = <<>>

\* C13 witness: a text longer than 8000 characters after trimming was cut and
\* passed to the provider, and the call returned a vector.
C13_Witness ==
    /\ embedding.called
    /\ Stripped(text).len > MaxEmbeddingChars
    /\ Len(provider_calls) = 1
    /\ embedding.value \in Vectors

\* The search request returns in this step, the cursor having been read
\* without a failure of the repository.
SearchReturns ==
    search_pc = "aggregate" /\ search_pc' = "done" /\ ~search_results'.error

\* The similarity of a stored chunk to the query embedding q can be computed.
Comparable(c, q) == c.embedding # <<>> /\ Len(c.embedding) = Len(q)

\* The stored chunks of document d that meet the threshold of request req.
ChunksMeeting(d, req, q) ==
    {c \in document_chunks :
        /\ c.document_id = d
        /\ c.workspace_id = req.workspace_id
        /\ Comparable(c, q)
        /\ cosine_similarity(q, c.embedding) >= req.similarity_threshold}

\* The ready documents of the request's workspace with a chunk that meets the
\* threshold.
DocumentsMeeting(req, q) ==
    {d \in DOMAIN documents :
        /\ documents[d].workspace_id = req.workspace_id
        /\ documents[d].status = READY
        /\ ChunksMeeting(d, req, q) # {}}

\* The documents in a list of results.
Returned(list) == {list[i].document : i \in 1..Len(list)}

\* The sum of the similarities of a set of chunks.
RECURSIVE TotalSimilarity(_, _)
TotalSimilarity(S, q) ==
    IF S = {} THEN 0
    ELSE LET c == CHOOSE x \in S : TRUE
         IN cosine_similarity(q, c.embedding) + TotalSimilarity(S \ {c}, q)

\* The highest similarity among the chunks of d that meet the threshold, and
\* 0.6 times it plus 0.4 times the mean similarity of all those chunks.
BestSimilarity(d, req, q) ==
    Max({cosine_similarity(q, c.embedding) : c \in ChunksMeeting(d, req, q)})
FullRelevance(d, req, q) ==
    Relevance(BestSimilarity(d, req, q),
              TotalSimilarity(ChunksMeeting(d, req, q), q),
              Cardinality(ChunksMeeting(d, req, q)))

\* C14: a search whose query embedding fails, or in whose workspace no chunk
\* meets the threshold, returns an empty list and no error, and no step of a
\* search changes a document or a chunk record.
C14_EmptySearch ==
    [][/\ (search_pc # search_pc') => UNCHANGED <<documents, document_chunks>>
       /\ (search_pc # "done" /\ search_pc' = "done") =>
             /\ search_results'.returned
             /\ (\/ query_embedding' = <<>>
                 \/ \A d \in DOMAIN documents :
                       ChunksMeeting(d, search_request', query_embedding') = {}) =>
                   search_results'.list = <<>>]_vars

\* C14 witness: a search over joined chunks of its workspace, none of which
\* meets the threshold, has returned.
C14_Witness ==
    /\ search_pc = "done" /\ query_embedding # <<>>
    /\ ~search_results.error
    /\ Pipeline(search_request) # {}
    /\ \A d \in DOMAIN documents :
          ChunksMeeting(d, search_request, query_embedding) = {}
    /\ search_results.list = <<>>

\* C15: when a ready document created by ingest has a stored chunk that meets
\* the threshold and limit >= 1, a search of its workspace returns it with
\* similarity_score >= threshold, provided no more than limit documents meet
\* the threshold; when it is the only one, it is the only result.
C15_IngestedDocumentFound ==
    [][SearchReturns =>
        LET req == search_request'
            q == query_embedding'
            d == document_id[1]
        IN (/\ d \in DocumentsMeeting(req, q)
            /\ req.limit >= 1
            /\ Cardinality(DocumentsMeeting(req, q)) <= req.limit) =>
              /\ \E i \in 1..Len(search_results'.list) :
                    /\ search_results'.list[i].document = d
                    /\ search_results'.list[i].similarity_score
                          >= req.similarity_threshold
              /\ DocumentsMeeting(req, q) = {d} =>
                    Returned(search_results'.list) = {d}]_vars

\* C16: for a limit of 0 or more, a search returns min(limit, number of
\* documents meeting the threshold) results, and no document meeting the
\* threshold that is left out has a higher relevance than a returned one.
C16_TopLimitOfAll ==
    [][SearchReturns =>
        LET req == search_request'
            q == query_embedding'
            list == search_results'.list
        IN req.limit >= 0 =>
              /\ Len(list) = Min({req.limit, Cardinality(DocumentsMeeting(req, q))})
              /\ \A d \in DocumentsMeeting(req, q) \ Returned(list) :
                    \A i \in 1..Len(list) :
                        ~Greater(FullRelevance(d, req, q), list[i].relevance_score)]_vars

C18_ThresholdFilter ==
    [][SearchReturns =>
        LET req == search_request'
            q == query_embedding'
            list == search_results'.list
        IN \A i \in 1..Len(list) :
              /\ list[i].document \in DocumentsMeeting(req, q)
              /\ \A k \in 1..Len(list[i].chunks) :
                    list[i].chunks[k] \in ChunksMeeting(list[i].document, req, q)
              /\ list[i].similarity_score \in
                    {cosine_similarity(q, c.embedding) :
                        c \in ChunksMeeting(list[i].document, req, q)}
              /\ ~Greater(Fraction(req.similarity_threshold, 1),
                          list[i].relevance_score)]_vars

\* C18 witness: a search returned a document that also has chunks below the
\* threshold.
C18_Witness ==
    /\ search_pc = "done"
    /\ \E i \in 1..Len(search_results.list) :
          \E c \in document_chunks :
              /\ c.document_id = search_results.list[i].document
              /\ Comparable(c, query_embedding)
              /\ cosine_similarity(query_embedding, c.embedding)
                    < search_request.similarity_threshold

\* C19: every list a search returns is sorted by relevance_score, highest
\* first.
C19_SortedByRelevance ==
    \A i \in 1..(Len(search_results.list) - 1) :
        ~Greater(search_results.list[i + 1].relevance_score,
                 search_results.list[i].relevance_score)

\* C19 witness: a search returned two documents of different relevance, the
\* first of which was not the first to come up among the chunks.
C19_Witness ==
    /\ search_pc = "done"
    /\ Len(search_results.list) >= 2
    /\ Greater(search_results.list[1].relevance_score,
               search_results.list[2].relevance_score)
    /\ search_results.list[1].similarity_score
          < search_results.list[2].similarity_score

\* C20: a search never returns more than limit results, whatever the limit.
C20_AtMostLimit ==
    search_results.returned => Len(search_results.list) <= search_request.limit

\* Every document and every chunk stored under a workspace other than w is
\* stored unchanged after the step.
OtherWorkspacesUntouched(w) ==
    /\ \A d \in DOMAIN documents :
          documents[d].workspace_id # w =>
              d \in DOMAIN documents' /\ documents'[d] = documents[d]
    /\ \A c \in document_chunks : c.workspace_id # w => c \in document_chunks'

\* C21: no operation crosses the workspace boundary: a search for workspace w
\* returns only documents and chunks stored under w, and a get, update or
\* delete called with workspace w returns a document only when it is stored
\* under w and leaves every document and chunk of another workspace as it was,
\* also when it is given the id of a document of another workspace.
C21_WorkspaceBoundary ==
    [][/\ \A d \in ServiceIds, w \in Workspaces :
             (\/ DeleteChunks(d, w)
              \/ RecordAccess(d, w)
              \/ \E u \in RouteUpdates : UpdateDocument(d, w, u))
                => OtherWorkspacesUntouched(w)
       /\ (DeleteDocument \/ GetDocument) =>
             /\ OtherWorkspacesUntouched(op.w)
             /\ opResult' \in {"document", "true"} =>
                   /\ op.d \in DOMAIN documents
                   /\ documents[op.d].workspace_id = op.w
       /\ SearchReturns =>
             \A i \in 1..Len(search_results'.list) :
                LET r == search_results'.list[i]
                IN /\ r.document \in DOMAIN documents
                   /\ documents[r.document].workspace_id = search_request.workspace_id
                   /\ \A j \in 1..Len(r.chunks) :
                         /\ r.chunks[j] \in document_chunks
                         /\ r.chunks[j].workspace_id = search_request.workspace_id]_vars

\* A delete called with workspace w2 and the id of a document of workspace w1
\* has run its delete_many: the document and its chunks are still stored.
C21_Witness ==
    /\ op = [name |-> "delete", d |-> 11, w |-> "w2"]
    /\ 11 \in DOMAIN documents
    /\ documents[11].workspace_id = "w1"
    /\ Cardinality(ChunksOf(11)) = 2

\* C22: a delete of an existing document that returns has removed the
\* document and every chunk with its document_id and returns true; a delete
\* of a document that is not stored in the workspace returns false and leaves
\* every document record unchanged.
C22_DeleteRemovesAll ==
    [][(DeleteDocument /\ faults' = faults) =>
          IF op.d \in DOMAIN documents /\ documents[op.d].workspace_id = op.w
          THEN /\ opResult' = "true"
               /\ op.d \notin DOMAIN documents'
               /\ \A c \in document_chunks' : c.document_id # op.d
          ELSE /\ opResult' = "false"
               /\ documents' = documents]_vars

\* C23: a get of a document stored in the workspace does not fail on its
\* access-recording write: whatever that write does, the get goes on to read
\* the document instead of raising.
C23_AccessRecordingNeverFailsRead ==
    [][\A d \in DocIds, w \in Workspaces :
          (/\ op = Idle
           /\ d \in DOMAIN documents
           /\ documents[d].workspace_id = w
           /\ RecordAccess(d, w))
             => opResult' # "raised" /\ op' = [name |-> "get", d |-> d, w |-> w]]_vars

\* A step of an update request: the update_one or the get_document_by_id that
\* follows it.
UpdateStep == op # op' /\ (op.name = "update" \/ op'.name = "update")

\* C24: an update request changes nothing but the title, content and status of
\* its document: the document's workspace, chunk_count and access statistics,
\* every chunk record and every other document stay as they were.
C24_UpdateFrame ==
    [][UpdateStep =>
          LET d == IF op.name = "update" THEN op.d ELSE op'.d
          IN /\ document_chunks' = document_chunks
             /\ DOMAIN documents' = DOMAIN documents
             /\ \A x \in DOMAIN documents :
                   IF x = d
                   THEN /\ documents'[x].workspace_id = documents[x].workspace_id
                        /\ documents'[x].chunk_count = documents[x].chunk_count
                        /\ documents'[x].access_count = documents[x].access_count
                   ELSE documents'[x] = documents[x]]_vars

\* C27: once an upload that created a document record has returned, with a
\* Document or with a failure, the stored record is ready or error, never
\* processing.
C27_LeavesProcessing ==
    \A p \in Procs :
        (/\ pc[p] = "done"
         /\ document_id[p] # NoDoc
         /\ document_id[p] \in DOMAIN documents)
            => documents[document_id[p]].status \in {READY, ERROR}

\* C28: every pass of the generic chunker's loop ends its window more than
\* chunk_overlap characters past the window's start and so moves the start
\* forward, and every call returns, also when passes emit no chunk and the cap
\* is not reached.
C28_Terminates ==
    /\ [][SplitStep =>
            LET window == chunks'.windows[Len(chunks'.windows)]
            IN /\ window.start = chunks.start
               /\ window.end > window.start + chunk_overlap
               /\ chunks'.start > chunks.start]_vars
    /\ <>chunks.done

\* A call returned below the cap after four passes or more, two of which or
\* more emitted no chunk.
C28_Witness ==
    /\ chunks.done
    /\ ~chunks.capped
    /\ Len(chunks.windows) >= 4
    /\ Len(chunks.windows) >= Len(chunks.list) + 2

\* The number of the marker line that opens the section of worksheet n: its
\* 1-based position among the marker lines of the text.
MarkerOrdinal(n) ==
    LET txt == excel_input.content
        at == CHOOSE i \in 1..Len(txt) : txt[i].kind = "marker" /\ txt[i].sheet = n
    IN Cardinality({i \in 1..at : txt[i].kind = "marker"})

\* The context line of worksheet n: its marker line from "WORKSHEET" on.
ContextLine(n) ==
    LET txt == excel_input.content
        marker == txt[CHOOSE i \in 1..Len(txt) :
                        txt[i].kind = "marker" /\ txt[i].sheet = n]
    IN Line("info", n, 0, marker.len - (SplitMarkerLen + 1) + InfoPrefixLen, 0)

\* The non-blank lines of the section of worksheet n after its marker line,
\* trimmed, in the order of the text.
SectionData(n) ==
    LET txt == excel_input.content
        wanted(l) == l.sheet = n /\ l.kind \notin {"marker", "blank"} /\ l.len > 0
    IN [i \in 1..Len(SelectSeq(txt, wanted)) |->
           [SelectSeq(txt, wanted)[i] EXCEPT !.pad = 0]]

\* The lines after the leading context line of the chunks of worksheet n from
\* chunk i on, concatenated in chunk order.
RECURSIVE ChunkData(_, _)
ChunkData(n, i) ==
    IF i > Len(excel_chunks.list) THEN <<>>
    ELSE (IF excel_chunks.list[i].content[1] = ContextLine(n)
          THEN Tail(excel_chunks.list[i].content)
          ELSE <<>>)
         \o ChunkData(n, i + 1)

\* The worksheets of the text.
SheetsOfText ==
    {excel_input.content[i].sheet : i \in Markers(excel_input.content)}

C30_NoContextOnlyChunk ==
    excel_chunks.returned =>
        \A i \in 1..Len(excel_chunks.list) :
            \E j \in 1..Len(excel_chunks.list[i].content) :
                excel_chunks.list[i].content[j].kind # "info"

====
